---- MODULE Spec2Model ----
(***************************************************************************)
(* Model of tusker (src/tusker/__init__.py): the ephemeral-database        *)
(* lifecycle of DatabaseAdmin.createdb, the cmd_diff pipeline and the      *)
(* cmd_clean sweep, run against one PostgreSQL server.                     *)
(*                                                                         *)
(* Database names, file names and file contents are sequences of           *)
(* one-character strings, so that formatting, quoting, case folding,       *)
(* sorting and stripping are computed as the code and the server do.       *)
(***************************************************************************)
EXTENDS Integers, Sequences, FiniteSets, TLC

\* ------------------------------------------------------------------ bounds
\* Largest value of int(time.time()) the model lets the clock reach.
MaxTime == 2
\* Number of statement failures the environment may inject in one behaviour
\* (failures that follow from the server state are not counted).
MaxFaults == 2

\* --------------------------------------------------------------- processes
Diffs == {"d1", "d2"}
Cleans == {"c1"}
Procs == Diffs \cup Cleans

\* ------------------------------------------------------- text and literals
\* The marker text of the source; the two backquote characters around
\* tusker clean are left out, the module syntax has no way to write them.
TUSKER_COMMENT == "CREATED BY TUSKER - If this table is left behind tusker probably crashed and was not able to clean up after itself. Either try running tusker clean or remove this database manually."
\* A comment that resembles the marker without being equal to it.
SimilarComment == "CREATED BY TUSKER"
\* No row in pg_shdescription.
NoComment == "<null>"

SchemaSuffix == <<"s", "c", "h", "e", "m", "a">>
MigrationsSuffix == <<"m", "i", "g", "r", "a", "t", "i", "o", "n", "s">>
SqlExt == <<".", "s", "q", "l">>

DigitChars == <<"0", "1", "2", "3", "4", "5", "6", "7", "8", "9">>
LowerChars == <<"a", "b", "c", "d", "e", "g", "h", "i", "l", "m", "n", "o", "q", "r", "s", "t", "x">>
UpperChars == <<"A", "B", "C", "D", "E", "G", "H", "I", "L", "M", "N", "O", "Q", "R", "S", "T", "X">>
Whitespace == {" ", "\n", "\t"}

Range(s) == {s[j] : j \in DOMAIN s}

\* str(int): the decimal digits of n.
RECURSIVE IntToStr(_)
IntToStr(n) ==
    IF n < 10 THEN <<DigitChars[n + 1]>>
    ELSE IntToStr(n \div 10) \o <<DigitChars[(n % 10) + 1]>>

\* The f-string of createdb: config.dbname, underscore, now, underscore, suffix.
DbNameOf(dbname, now, suffix) ==
    dbname \o <<"_">> \o IntToStr(now) \o <<"_">> \o suffix

\* Whether the text holds a double quote character.
HasQuote(name) == "\"" \in Range(name)

\* -------------------------------------------------- identifiers as the server reads them
SyntaxError == <<"<syntax error>">>

FoldChar(c) ==
    IF c \in Range(UpperChars)
    THEN LowerChars[CHOOSE j \in DOMAIN UpperChars : UpperChars[j] = c]
    ELSE c

IdentStart(c) == c \in Range(LowerChars) \cup Range(UpperChars) \cup {"_"}
IdentPart(c) == IdentStart(c) \/ c \in Range(DigitChars) \/ c = "$"

\* How the server reads a name written between double quotes: the name as
\* it is, unless a quote inside it ends the identifier early.
QuotedIdent(name) ==
    IF name = <<>> \/ HasQuote(name) THEN SyntaxError ELSE name

\* How the server reads name written bare: letters are folded to lower case,
\* and a character outside [A-Za-z0-9_$] is a syntax error.
UnquotedIdent(name) ==
    IF name = <<>> THEN SyntaxError
    ELSE IF ~IdentStart(name[1]) THEN SyntaxError
    ELSE IF \E j \in DOMAIN name : ~IdentPart(name[j]) THEN SyntaxError
    ELSE [j \in DOMAIN name |-> FoldChar(name[j])]

\* ------------------------------------------------------------------- files
\* The test of a script if it looked at the text as it was read.
StripNothing(s) == s

\* str.strip(): leading and trailing whitespace removed.
RECURSIVE LStrip(_)
LStrip(s) ==
    IF s # <<>> /\ Head(s) \in Whitespace THEN LStrip(Tail(s)) ELSE s

RECURSIVE RStrip(_)
RStrip(s) ==
    IF s # <<>> /\ s[Len(s)] \in Whitespace
    THEN RStrip(SubSeq(s, 1, Len(s) - 1))
    ELSE s

Strip(s) == RStrip(LStrip(s))

\* str.endswith(suffix)
EndsWith(s, suffix) ==
    /\ Len(s) >= Len(suffix)
    /\ SubSeq(s, Len(s) - Len(suffix) + 1, Len(s)) = suffix

\* Code point order of the characters that occur in file names.
CharOrder == <<"-", ".", "0", "1", "2", "a", "b", "l", "q", "s", "t", "x">>
Ord(c) == CHOOSE j \in DOMAIN CharOrder : CharOrder[j] = c

\* str.__lt__ of Python: the first differing character decides, a proper
\* prefix is smaller.
RECURSIVE StrLess(_, _)
StrLess(a, b) ==
    IF b = <<>> THEN FALSE
    ELSE IF a = <<>> THEN TRUE
    ELSE IF Head(a) = Head(b) THEN StrLess(Tail(a), Tail(b))
    ELSE Ord(Head(a)) < Ord(Head(b))

\* sorted(names): the one sequence that holds each name once, ascending.
Sorted(names) ==
    CHOOSE s \in [1..Cardinality(names) -> names] :
        /\ Range(s) = names
        /\ \A j \in 1..(Len(s) - 1) : StrLess(s[j], s[j + 1])

\* Every order in which the elements of a set can be listed.
Orders(S) ==
    {s \in [1..Cardinality(S) -> S] : Range(s) = S}

\* ------------------------------------------------------------------- state
VARIABLES
    dbs,            \* the server: database name |-> [comment, creator, sessions]
    clock,          \* time.time(), in whole seconds
    gone,           \* the databases dropped so far, and by whom
    faults,         \* statement failures the environment may still inject
    schemaFile,     \* content of cfg.schema.filename
    migrationsDir,  \* cfg.migrations.directory: file name |-> content
    proc            \* one record per invocation of the tool

vars == <<dbs, gone, clock, faults, schemaFile, migrationsDir, proc>>

\* Sessions are named after the invocation that opened them; Ext is a
\* session of some other client of the server.
Ext == "ext"
\* creator of a database that no createdb call of the model created
Nobody == "nobody"
\* no exception in flight
NoExc == "None"

\* ------------------------------------------------------------ the server
Exists(ident) == ident # SyntaxError /\ ident \in DOMAIN dbs

WithDb(ident, rec) ==
    [m \in DOMAIN dbs \cup {ident} |-> IF m = ident THEN rec ELSE dbs[m]]

WithoutDb(ident) == [m \in DOMAIN dbs \ {ident} |-> dbs[m]]

\* The record of the database ident, dropped by the invocation by.
Dropped(ident, by) ==
    [name |-> ident, comment |-> dbs[ident].comment,
     creator |-> dbs[ident].creator, by |-> by]

\* CREATE DATABASE succeeds for a well-formed name that is not taken.
CanCreate(ident) == ident # SyntaxError /\ ident \notin DOMAIN dbs

\* DROP DATABASE succeeds for an existing database nobody is connected to.
CanDrop(ident) == Exists(ident) /\ dbs[ident].sessions = {}

\* SELECT pg_terminate_backend(pid) FROM pg_stat_activity WHERE datname = %s:
\* the name is a bound parameter, compared as it is.
Terminated(name) ==
    IF name \in DOMAIN dbs
    THEN [dbs EXCEPT ![name].sessions = {}]
    ELSE dbs

\* A new session of who on the database name.
Connected(name, who) ==
    [dbs EXCEPT ![name].sessions = @ \cup {who}]

\* The sessions of a process end with the process.
Disconnected(who) ==
    [m \in DOMAIN dbs |-> [dbs[m] EXCEPT !.sessions = @ \ {who}]]

\* The orphan query with a test that takes any comment for the marker.
IsOrphanLoose(description) == description # NoComment

\* WHERE dsc.description = %s of the orphan query.
IsOrphan(description) == description = TUSKER_COMMENT

\* The rows of the orphan query of cmd_clean.
OrphanNames == {m \in DOMAIN dbs : IsOrphan(dbs[m].comment)}

\* The environment may make a statement fail that would have succeeded.
FaultChoices == IF faults > 0 THEN {FALSE, TRUE} ELSE {FALSE}
Spend(fault) == faults' = IF fault THEN faults - 1 ELSE faults

\* ----------------------------------------------------------- invocations
Stmt(op, db, arg, ok) == [op |-> op, db |-> db, arg |-> arg, ok |-> ok]

Idle ==
    [pc |-> "idle", verbose |-> FALSE, dbname |-> <<>>, conn |-> FALSE,
     suffix |-> <<>>, name |-> <<>>, scopes |-> <<>>, exc |-> NoExc,
     files |-> <<>>, i |-> 0, rows |-> <<>>,
     stdout |-> <<>>, stderr |-> <<>>, stmts |-> <<>>, safety |-> TRUE]

\* print(..., out=sys.stderr): print takes the keywords sep, end, file and
\* flush; any other keyword makes it raise TypeError before it writes.
PrintKeywords == {"sep", "end", "file", "flush"}
PrintRaises(keyword) == keyword \notin PrintKeywords

\* if args.verbose: print(notice, out=sys.stderr), applied to the record r
\* of an invocation that has no exception in flight.
Notice(r, text) ==
    IF ~r.verbose THEN r
    ELSE IF PrintRaises("out") THEN [r EXCEPT !.exc = "TypeError"]
    ELSE [r EXCEPT !.stderr = Append(@, text)]

\* Where control goes when an exception leaves the with statement of
\* cmd_diff, or its body ends: to the exit of the innermost open createdb
\* scope, or out of cmd_diff when no scope is open.
Leave(r) ==
    [r EXCEPT !.pc = IF r.scopes = <<>> THEN "returned" ELSE "terminate"]

Raise(r, exc) == Leave([r EXCEPT !.exc = exc])

\* cfg.database.dbname, the configured base name of the databases.
ConfigDbnames == {<<"d", "b">>, <<"D", "b">>, <<"d", "\"">>}

\* The name as the CREATE and COMMENT statements of createdb write it.
CreateIdent(name) == QuotedIdent(name)

\* The name as the DROP statement of createdb writes it.
DropIdent(name) == UnquotedIdent(name)

\* cmd_clean without its test of the fetched name.
UnsafeNameNever(dbname) == FALSE

\* The test of cmd_clean on a fetched name before it is interpolated.
UnsafeName(dbname) == HasQuote(dbname)

\* The name as the DROP statement of cmd_clean writes it.
CleanIdent(name) == QuotedIdent(name)

\* The exception in flight after a statement of the teardown has failed.
TeardownRaise(inflight) == "TeardownError"

\* A script can run on the session of p on the database name while the
\* server still has that session.
SessionAlive(name, p) == name \in DOMAIN dbs /\ p \in dbs[name].sessions

\* ------------------------------------------------------------- cmd_diff
\* The with statement if it named the migrations database first.
WithItemsSwapped == <<MigrationsSuffix, SchemaSuffix>>

\* with dba.createdb(schema) as ..., dba.createdb(migrations) as ...: the
\* suffixes of the createdb calls of the with statement, in the order in
\* which it makes them, all of them before its body starts.
WithItems == <<SchemaSuffix, MigrationsSuffix>>

\* main calls cmd_diff: DatabaseAdmin(cfg) connects, then the first notice.
DiffStart(p) ==
    /\ proc[p].pc = "idle"
    /\ \E verbose \in BOOLEAN, dbname \in ConfigDbnames, fault \in FaultChoices :
        LET r0 == [Idle EXCEPT !.verbose = verbose, !.dbname = dbname]
            r1 == Notice([r0 EXCEPT !.conn = TRUE], "Creating databases...")
        IN  /\ Spend(fault)
            /\ proc' = [proc EXCEPT ![p] =
                    IF fault
                    THEN [r0 EXCEPT !.pc = "returned", !.exc = "ConnectionError"]
                    ELSE IF r1.exc # NoExc
                    THEN [r1 EXCEPT !.pc = "returned"]
                    ELSE [r1 EXCEPT !.pc = "create", !.suffix = WithItems[1]]]
    /\ UNCHANGED <<dbs, gone, clock, schemaFile, migrationsDir>>

\* createdb: compute the name from the clock and issue CREATE DATABASE.
CreateDb(p) ==
    LET r == proc[p]
        name == DbNameOf(r.dbname, clock, r.suffix)
        ident == CreateIdent(name)
    IN  /\ r.pc = "create"
        /\ \E fault \in FaultChoices :
            LET ok == CanCreate(ident) /\ ~fault
                r1 == [r EXCEPT !.name = name,
                                !.stmts = Append(@, Stmt("CREATE", ident, <<>>, ok))]
            IN  /\ fault => CanCreate(ident)
                /\ Spend(fault)
                /\ dbs' = IF ok
                          THEN WithDb(ident, [comment |-> NoComment,
                                              creator |-> p, sessions |-> {}])
                          ELSE dbs
                /\ proc' = [proc EXCEPT ![p] =
                        IF ok THEN [r1 EXCEPT !.pc = "comment"]
                        ELSE Raise(r1, "ProvisioningError")]
        /\ UNCHANGED <<gone, clock, schemaFile, migrationsDir>>

\* createdb: COMMENT ON DATABASE, then the engine is made and yielded: the
\* scope is open, and cmd_diff goes on to the next createdb or to its body.
CommentDb(p) ==
    LET r == proc[p]
        ident == CreateIdent(r.name)
    IN  /\ r.pc = "comment"
        /\ \E fault \in FaultChoices :
            LET ok == Exists(ident) /\ ~fault
                r1 == [r EXCEPT !.stmts = Append(@, Stmt("COMMENT", ident, <<>>, ok))]
            IN  /\ fault => Exists(ident)
                /\ Spend(fault)
                /\ dbs' = IF ok
                          THEN [dbs EXCEPT ![ident].comment = TUSKER_COMMENT]
                          ELSE dbs
                /\ proc' = [proc EXCEPT ![p] =
                        IF ~ok THEN Raise(r1, "CommentError")
                        ELSE IF Len(r.scopes) + 1 < Len(WithItems)
                        THEN [r1 EXCEPT !.scopes = Append(@, r.name),
                                        !.suffix = WithItems[Len(r.scopes) + 2],
                                        !.pc = "create"]
                        ELSE [r1 EXCEPT !.scopes = Append(@, r.name),
                                        !.pc = "connect_schema"]]
        /\ UNCHANGED <<gone, clock, schemaFile, migrationsDir>>

\* engine.connect(): a session of p on the database name, unless the
\* database is gone or the environment makes the connection fail.
Connect(r, name, ok) ==
    [r EXCEPT !.stmts = Append(@, Stmt("CONNECT", name, <<>>, ok))]

\* schema_cursor = schema_engine.connect()
ConnectSchema(p) ==
    LET r == proc[p]
        name == r.scopes[1]
    IN  /\ r.pc = "connect_schema"
        /\ \E fault \in FaultChoices :
            LET ok == name \in DOMAIN dbs /\ ~fault
                r1 == Connect(r, name, ok)
            IN  /\ fault => name \in DOMAIN dbs
                /\ Spend(fault)
                /\ dbs' = IF ok THEN Connected(name, p) ELSE dbs
                /\ proc' = [proc EXCEPT ![p] =
                        IF ok THEN [r1 EXCEPT !.pc = "apply_schema"]
                        ELSE Raise(r1, "ConnectionError")]
        /\ UNCHANGED <<gone, clock, schemaFile, migrationsDir>>

\* The for statement goes on with the file at index i, or the loop is over.
NextFile(r) ==
    [r EXCEPT !.pc = IF r.i > Len(r.files) THEN "diff" ELSE "loop"]

\* The listing if the for statement took the names in descending order.
ListingDescending ==
    CHOOSE s \in Orders(DOMAIN migrationsDir) :
        \A j \in 1..(Len(s) - 1) : StrLess(s[j + 1], s[j])

\* sorted(os.listdir(cfg.migrations.directory))
Listing == Sorted(DOMAIN migrationsDir)

\* migrations_cursor = migrations_engine.connect(), then the for statement
\* evaluates the sorted listing.
ConnectMigrations(p) ==
    LET r == proc[p]
        name == r.scopes[2]
    IN  /\ r.pc = "connect_migrations"
        /\ \E fault \in FaultChoices :
            LET ok == name \in DOMAIN dbs /\ ~fault
                r1 == Connect(r, name, ok)
            IN  /\ fault => name \in DOMAIN dbs
                /\ Spend(fault)
                /\ dbs' = IF ok THEN Connected(name, p) ELSE dbs
                /\ proc' = [proc EXCEPT ![p] =
                        IF ok THEN NextFile([r1 EXCEPT !.files = Listing, !.i = 1])
                        ELSE Raise(r1, "ConnectionError")]
        /\ UNCHANGED <<gone, clock, schemaFile, migrationsDir>>

\* with open(...) as fh: sql = fh.read(); if sql.strip(): cursor.execute(sql)
\* The record after the script sql, read from the file called arg, was
\* applied to the database name; fault makes the execution fail.
Apply(r, p, name, arg, sql, fault) ==
    IF Strip(sql) = <<>> THEN r
    ELSE LET ok == SessionAlive(name, p) /\ ~fault
             r1 == [r EXCEPT !.stmts = Append(@, Stmt("EXECUTE", name, arg, ok))]
         IN  IF ok THEN r1 ELSE [r1 EXCEPT !.exc = "ApplyError"]

\* Whether the environment can choose the outcome of applying sql.
Applies(name, p, sql) == Strip(sql) # <<>> /\ SessionAlive(name, p)

\* The schema file is applied to the schema database.
ApplySchema(p) ==
    LET r == proc[p]
        name == r.scopes[1]
    IN  /\ r.pc = "apply_schema"
        /\ \E fault \in FaultChoices :
            LET r1 == Notice(r, "Creating target schema...")
                r2 == IF r1.exc # NoExc THEN r1
                      ELSE Apply(r1, p, name, <<"schema">>, schemaFile, fault)
                r3 == IF r2.exc # NoExc THEN r2
                      ELSE Notice(r2, "Creating migrated schema...")
            IN  /\ fault => (~r.verbose /\ Applies(name, p, schemaFile))
                /\ Spend(fault)
                /\ proc' = [proc EXCEPT ![p] =
                        IF r3.exc # NoExc THEN Leave(r3)
                        ELSE [r3 EXCEPT !.pc = "connect_migrations"]]
        /\ UNCHANGED <<dbs, gone, clock, schemaFile, migrationsDir>>

\* One turn of the loop over the sorted directory listing.
MigrationStep(p) ==
    LET r == proc[p]
        name == r.scopes[2]
        filename == r.files[r.i]
        sql == IF filename \in DOMAIN migrationsDir
               THEN migrationsDir[filename] ELSE <<>>
    IN  /\ r.pc = "loop"
        /\ \E fault \in FaultChoices :
            LET r1 == IF ~EndsWith(filename, SqlExt) THEN r
                      ELSE Notice(r, filename)
                r2 == IF ~EndsWith(filename, SqlExt) \/ r1.exc # NoExc THEN r1
                      ELSE Apply(r1, p, name, filename, sql, fault)
            IN  /\ fault => /\ EndsWith(filename, SqlExt)
                            /\ ~r.verbose
                            /\ Applies(name, p, sql)
                /\ Spend(fault)
                /\ proc' = [proc EXCEPT ![p] =
                        IF r2.exc # NoExc THEN Leave(r2)
                        ELSE NextFile([r2 EXCEPT !.i = @ + 1])]
        /\ UNCHANGED <<dbs, gone, clock, schemaFile, migrationsDir>>

\* The diff engine if cmd_diff left its safety switch as it is made.
SetSafetyKept == TRUE

\* migration.set_safety(False): the value the safety switch of the diff
\* engine gets; with the switch on the engine refuses destructive statements.
SetSafety == FALSE

\* migra.Migration(migrations_engine, schema_engine), set_safety(False),
\* add_all_changes(), then print(migration.sql, end=...). The field safety
\* is the switch of the migration object whose changes were computed.
RunDiff(p) ==
    LET r == proc[p]
        source == r.scopes[2]
        target == r.scopes[1]
    IN  /\ r.pc = "diff"
        /\ \E fault \in FaultChoices :
            LET r1 == Notice(r, "Diffing...")
                can == source \in DOMAIN dbs /\ target \in DOMAIN dbs
                ok == can /\ ~fault
                r2 == [r1 EXCEPT !.stmts = Append(@, Stmt("DIFF", source, target, ok))]
            IN  /\ fault => (~r.verbose /\ can)
                /\ Spend(fault)
                /\ proc' = [proc EXCEPT ![p] =
                        IF r1.exc # NoExc THEN Leave(r1)
                        ELSE IF ~ok THEN Raise(r2, "DiffError")
                        ELSE Leave([r2 EXCEPT !.safety = SetSafety,
                                              !.stdout = Append(@, "migration.sql")])]
        /\ UNCHANGED <<dbs, gone, clock, schemaFile, migrationsDir>>

\* The innermost open scope is left: its database name.
Top(r) == r.scopes[Len(r.scopes)]
Pop(r) == [r EXCEPT !.scopes = SubSeq(@, 1, Len(@) - 1)]

\* The teardown if a failed terminate statement ended the whole unwinding,
\* as it would with both databases released in one finally block.
AfterTerminateAbort(r, ok) ==
    IF ok THEN [r EXCEPT !.pc = "drop"]
    ELSE [r EXCEPT !.exc = "TeardownError", !.scopes = <<>>, !.pc = "returned"]

\* What the finally block of createdb does after the terminate statement.
AfterTerminate(r, ok) ==
    IF ok THEN [r EXCEPT !.pc = "drop"]
    ELSE Leave(Pop([r EXCEPT !.exc = TeardownRaise(r.exc)]))

\* createdb, finally: engine.dispose(), which leaves the connections that
\* are in use open, then the terminate statement for the scope's database.
Terminate(p) ==
    LET r == proc[p]
        name == Top(r)
    IN  /\ r.pc = "terminate"
        /\ \E fault \in FaultChoices :
            LET ok == ~fault
                r1 == [r EXCEPT !.stmts = Append(@, Stmt("TERMINATE", name, <<>>, ok))]
            IN  /\ Spend(fault)
                /\ dbs' = IF ok THEN Terminated(name) ELSE dbs
                /\ proc' = [proc EXCEPT ![p] = AfterTerminate(r1, ok)]
        /\ UNCHANGED <<gone, clock, schemaFile, migrationsDir>>

\* createdb, finally: DROP DATABASE, the last statement of the scope.
Drop(p) ==
    LET r == proc[p]
        ident == DropIdent(Top(r))
    IN  /\ r.pc = "drop"
        /\ \E fault \in FaultChoices :
            LET ok == CanDrop(ident) /\ ~fault
                r1 == [r EXCEPT !.stmts = Append(@, Stmt("DROP", ident, <<>>, ok))]
            IN  /\ fault => CanDrop(ident)
                /\ Spend(fault)
                /\ dbs' = IF ok THEN WithoutDb(ident) ELSE dbs
                /\ gone' = IF ok THEN gone \cup {Dropped(ident, p)} ELSE gone
                /\ proc' = [proc EXCEPT ![p] =
                        IF ok THEN Leave(Pop(r1))
                        ELSE Leave(Pop([r1 EXCEPT !.exc = TeardownRaise(r.exc)]))]
        /\ UNCHANGED <<clock, schemaFile, migrationsDir>>

\* ------------------------------------------------------------ cmd_clean
\* main calls cmd_clean: DatabaseAdmin(cfg) connects, a cursor is opened.
CleanStart(p) ==
    /\ proc[p].pc = "idle"
    /\ \E verbose \in BOOLEAN, fault \in FaultChoices :
        LET r0 == [Idle EXCEPT !.verbose = verbose]
        IN  /\ Spend(fault)
            /\ proc' = [proc EXCEPT ![p] =
                    IF fault
                    THEN [r0 EXCEPT !.pc = "returned", !.exc = "ConnectionError"]
                    ELSE [r0 EXCEPT !.pc = "select", !.conn = TRUE]]
    /\ UNCHANGED <<dbs, gone, clock, schemaFile, migrationsDir>>

\* The for statement of cmd_clean goes on with the row at index i, or the
\* loop is over and cmd_clean returns through cursor.close().
NextRow(r) ==
    [r EXCEPT !.pc = IF r.i > Len(r.rows) THEN "returned" ELSE "sweep"]

\* The orphan query and fetchall(): the rows come in an order the server
\* chooses.
CleanSelect(p) ==
    LET r == proc[p]
    IN  /\ r.pc = "select"
        /\ \E order \in Orders(OrphanNames), fault \in FaultChoices :
            LET r1 == [r EXCEPT !.stmts = Append(@, Stmt("SELECT", <<>>, <<>>, ~fault))]
            IN  /\ Spend(fault)
                /\ proc' = [proc EXCEPT ![p] =
                        IF fault
                        THEN [r1 EXCEPT !.pc = "returned", !.exc = "QueryError"]
                        ELSE NextRow([r1 EXCEPT !.rows = order, !.i = 1])]
        /\ UNCHANGED <<dbs, gone, clock, schemaFile, migrationsDir>>

\* The loop of cmd_clean if it swallowed the failure of a DROP statement.
AfterCleanDropContinue(r, ok) == NextRow([r EXCEPT !.i = @ + 1])

\* What the loop of cmd_clean does after the DROP statement of a row: the
\* next row, or the exception leaves cmd_clean.
AfterCleanDrop(r, ok) ==
    IF ok THEN NextRow([r EXCEPT !.i = @ + 1])
    ELSE [r EXCEPT !.pc = "returned", !.exc = "DropError"]

\* One turn of the loop over the fetched rows.
CleanStep(p) ==
    LET r == proc[p]
        dbname == r.rows[r.i]
        ident == CleanIdent(dbname)
    IN  /\ r.pc = "sweep"
        /\ \E fault \in FaultChoices :
            LET r1 == Notice(r, "Dropping")
                issued == ~UnsafeName(dbname) /\ r1.exc = NoExc
                ok == CanDrop(ident) /\ ~fault
                r2 == [r1 EXCEPT !.stmts = Append(@, Stmt("DROP", ident, <<>>, ok))]
            IN  /\ fault => (issued /\ CanDrop(ident))
                /\ Spend(fault)
                /\ dbs' = IF issued /\ ok THEN WithoutDb(ident) ELSE dbs
                /\ gone' = IF issued /\ ok THEN gone \cup {Dropped(ident, p)} ELSE gone
                /\ proc' = [proc EXCEPT ![p] =
                        IF UnsafeName(dbname)
                        THEN [r EXCEPT !.pc = "returned", !.exc = "RuntimeError"]
                        ELSE IF r1.exc # NoExc
                        THEN [r1 EXCEPT !.pc = "returned"]
                        ELSE AfterCleanDrop(r2, ok)]
        /\ UNCHANGED <<clock, schemaFile, migrationsDir>>

\* ---------------------------------------------------------- environment
\* The process of a running invocation is killed: nothing of its code runs
\* any more, and the server closes its sessions.
Kill(p) ==
    /\ proc[p].pc \notin {"idle", "returned", "killed"}
    /\ proc' = [proc EXCEPT ![p].pc = "killed"]
    /\ dbs' = Disconnected(p)
    /\ UNCHANGED <<gone, clock, faults, schemaFile, migrationsDir>>

\* A second passes.
Tick ==
    /\ clock < MaxTime
    /\ clock' = clock + 1
    /\ UNCHANGED <<dbs, gone, faults, schemaFile, migrationsDir, proc>>

\* ------------------------------------------------------- initial states
File10a == <<"1", "0", "-", "a", ".", "s", "q", "l">>
File2b == <<"2", "-", "b", ".", "s", "q", "l">>
FileTxt == <<"x", ".", "t", "x", "t">>
FileNames == {File10a, File2b, FileTxt}

Empty == <<>>
Blank == <<" ", "\n">>
Script == <<" ", "x", "\n">>
FileContents == {Empty, Blank, Script}

\* The migration directories of the model: any of the files, the text file
\* with one content.
Directories ==
    {d \in UNION {[S -> FileContents] : S \in SUBSET FileNames} :
        FileTxt \in DOMAIN d => d[FileTxt] = Script}

\* Databases that exist before any invocation starts.
OldLower == <<"o", "a">>
OldUpper == <<"O", "b">>
OldQuote == <<"q", "\"", "x">>
OldNames == {OldLower, OldUpper, OldQuote}
OldDatabases ==
    [comment : {TUSKER_COMMENT, SimilarComment, NoComment},
     creator : {Nobody}, sessions : {{}, {Ext}}]

NoDatabases == [m \in {} |-> [comment |-> NoComment, creator |-> Nobody, sessions |-> {}]]

InitCommon ==
    /\ clock = 1
    /\ gone = {}
    /\ proc = [p \in Procs |-> Idle]

\* One cmd_diff run on a server without databases of its own making.
InitDiff ==
    /\ InitCommon
    /\ faults = MaxFaults
    /\ dbs = NoDatabases
    /\ schemaFile \in FileContents
    /\ migrationsDir \in Directories

\* One cmd_clean run on a server with any databases.
InitClean ==
    /\ InitCommon
    /\ faults = MaxFaults
    /\ dbs \in UNION {[S -> OldDatabases] : S \in SUBSET OldNames}
    /\ schemaFile = Blank
    /\ migrationsDir = [f \in {} |-> Blank]

\* A cmd_diff run and a cmd_clean run side by side.
Init ==
    /\ InitCommon
    /\ faults = MaxFaults
    /\ dbs = NoDatabases
    /\ schemaFile = Script
    /\ migrationsDir = [f \in {File2b} |-> Script]

\* Two cmd_diff runs side by side; every failure comes from what the two
\* do to each other, the environment adds none.
InitTwo ==
    /\ InitCommon
    /\ faults = 0
    /\ dbs = NoDatabases
    /\ schemaFile = Script
    /\ migrationsDir = [f \in {File2b} |-> Script]

\* ------------------------------------------------------- specifications
DiffNext(p) ==
    \/ DiffStart(p)
    \/ CreateDb(p)
    \/ CommentDb(p)
    \/ ConnectSchema(p)
    \/ ApplySchema(p)
    \/ ConnectMigrations(p)
    \/ MigrationStep(p)
    \/ RunDiff(p)
    \/ Terminate(p)
    \/ Drop(p)

CleanNext(p) ==
    \/ CleanStart(p)
    \/ CleanSelect(p)
    \/ CleanStep(p)

\* A cmd_diff run and a cmd_clean run at the same time.
Next == DiffNext("d1") \/ Kill("d1") \/ CleanNext("c1") \/ Tick

\* Two cmd_diff runs at the same time.
NextTwo == (\E p \in Diffs : DiffNext(p)) \/ Tick

NextDiff == DiffNext("d1") \/ Kill("d1") \/ Tick

NextClean == CleanNext("c1")

Spec == Init /\ [][Next]_vars
SpecTwo == InitTwo /\ [][NextTwo]_vars
SpecDiff == InitDiff /\ [][NextDiff]_vars
SpecClean == InitClean /\ [][NextClean]_vars

\* ----------------------------------------------------------- properties
\* The statements the invocation p has issued so far, in order.
Log(p) == proc[p].stmts

Returned(p) == proc[p].pc = "returned"

\* p issued the terminate statement for name and, after it, a DROP
\* statement that the server reads as naming name.
TornDown(p, name) ==
    \E a, b \in DOMAIN Log(p) :
        /\ a < b
        /\ Log(p)[a].op = "TERMINATE" /\ Log(p)[a].db = name
        /\ Log(p)[b].op = "DROP" /\ Log(p)[b].db = name

\* The names of the databases whose createdb scope p has opened.
Opened(p) == {Log(p)[j].db : j \in {k \in DOMAIN Log(p) :
                                    Log(p)[k].op = "COMMENT" /\ Log(p)[k].ok}}

\* p is between its first createdb call and the end of the with body.
InBody(p) ==
    proc[p].pc \in {"create", "comment", "connect_schema", "apply_schema",
                    "connect_migrations", "loop", "diff"}

\* The with body of p ended in one of three ways: the diff engine ran (and
\* succeeded or failed) or a script failed.
ListedExit(p) ==
    \E j \in DOMAIN Log(p) :
        \/ Log(p)[j].op = "DIFF"
        \/ Log(p)[j].op = "EXECUTE" /\ ~Log(p)[j].ok

\* C1 (no-leak): once a cmd_diff run has returned, whatever step failed, no
\* database that this run created still exists on the server.
C1_NoLeak ==
    \A p \in Diffs :
        Returned(p) => \A n \in DOMAIN dbs : dbs[n].creator # p

\* C2 (unconditional teardown): for each database whose createdb scope was
\* opened, once the run has left the scope (after normal completion, after a
\* script failed, after the diff engine failed) the terminate-sessions
\* statement for that database was issued and, after it, the DROP DATABASE
\* statement for that database.
C2_UnconditionalTeardown ==
    \A p \in Diffs :
        (Returned(p) /\ ListedExit(p))
            => \A name \in Opened(p) : TornDown(p, name)

\* C3 (marker invariant): in every reachable state, also after a kill or a
\* failure, every database that a createdb call created and that exists on
\* the server carries the comment TUSKER_COMMENT.
C3_MarkerInvariant ==
    \A n \in DOMAIN dbs :
        dbs[n].creator \in Diffs => dbs[n].comment = TUSKER_COMMENT

\* C4 (no interference): no step of any invocation drops, or terminates a
\* session of, a database created by a cmd_diff run that is still running and
\* has not reached its own teardown.
C4_NoInterference ==
    [][\A q \in Diffs : \A n \in DOMAIN dbs :
          (dbs[n].creator = q /\ InBody(q) /\ proc'[q].pc # "killed")
              => (n \in DOMAIN dbs' /\ dbs[n].sessions \subseteq dbs'[n].sessions)]_vars

\* The DROP statements cmd_clean has issued, in order.
IsDrop(stmt) == stmt.op = "DROP"
Drops(p) == SelectSeq(Log(p), IsDrop)

\* The positions of the fetched rows whose name holds a double quote.
UnsafeRows(p) == {j \in DOMAIN proc[p].rows : HasQuote(proc[p].rows[j])}
FirstUnsafe(p) == CHOOSE k \in UnsafeRows(p) : \A j \in UnsafeRows(p) : k <= j

\* C5 (sweep exactness): when a cmd_clean run has completed without error,
\* every database whose comment equals the marker text has been dropped and
\* every database the run dropped had exactly the marker text as comment,
\* whatever the names are.
C5_SweepExactness ==
    \A p \in Cleans :
        (Returned(p) /\ proc[p].exc = NoExc)
            => /\ \A n \in DOMAIN dbs : dbs[n].comment # TUSKER_COMMENT
               /\ \A g \in gone : g.by = p => g.comment = TUSKER_COMMENT

\* A completed sweep that dropped the tagged database with the upper case
\* name and left a database with the similar comment in place.
C5_Witness ==
    /\ Returned("c1") /\ proc["c1"].exc = NoExc
    /\ \E g \in gone : g.by = "c1" /\ g.name = OldUpper
    /\ \E n \in DOMAIN dbs : dbs[n].comment = SimilarComment

\* C6 as stated (unsafe-name guard): when the fetched list holds a name with
\* a double quote the run ends with an error, that database is not dropped,
\* and the safe-named orphans are swept as if it were not there: the sweep
\* that stops at the unsafe name has all the same issued the DROP of the
\* safe-named orphan listed after it.
C6_UnsafeNameGuard ==
    \A p \in Cleans :
        (Returned(p) /\ UnsafeRows(p) # {})
            => LET r == proc[p] IN
               /\ r.exc # NoExc
               /\ \A j \in UnsafeRows(p) : r.rows[j] \in DOMAIN dbs
               /\ (r.exc = "RuntimeError" /\ r.i < Len(r.rows)
                       /\ ~HasQuote(r.rows[r.i + 1]))
                    => \E a \in DOMAIN Log(p) :
                          Log(p)[a].op = "DROP" /\ Log(p)[a].db = r.rows[r.i + 1]

\* C6 as amended: when the fetched list holds a name with a double quote the
\* run ends with an error; no DROP is issued for that name nor for any row
\* listed after it, and those databases still exist; the DROP statements that
\* were issued are those of the rows before it, in list order, and when the
\* run ends with the unsafe-name error all the rows before it are dropped.
C6_UnsafeNameStops ==
    \A p \in Cleans :
        (Returned(p) /\ UnsafeRows(p) # {})
            => LET r == proc[p]
                   k == FirstUnsafe(p)
               IN  /\ r.exc # NoExc
                   /\ Len(Drops(p)) < k
                   /\ \A a \in DOMAIN Drops(p) : Drops(p)[a].db = r.rows[a]
                   /\ \A j \in k..Len(r.rows) : r.rows[j] \in DOMAIN dbs
                   /\ r.exc = "RuntimeError"
                        => /\ Len(Drops(p)) = k - 1
                           /\ \A j \in 1..(k - 1) : r.rows[j] \notin DOMAIN dbs

\* A sweep stopped by the unsafe name in the middle of the list: the orphan
\* before it is dropped, the orphan after it is still there.
C6_Witness ==
    LET r == proc["c1"] IN
    /\ Returned("c1") /\ r.exc = "RuntimeError"
    /\ Len(r.rows) = 3 /\ r.i = 2
    /\ r.rows[1] \notin DOMAIN dbs
    /\ r.rows[3] \in DOMAIN dbs

\* C7 (fail-fast sweep): when a DROP of cmd_clean has failed, it is the last
\* statement of the run and was issued once, no DROP was issued for a row
\* later in the list, the databases of the later rows still exist when the
\* run has ended, and the run ends with the error of that DROP.
C7_FailFastSweep ==
    \A p \in Cleans :
        (Returned(p) /\ \E a \in DOMAIN Drops(p) : ~Drops(p)[a].ok)
            => LET r == proc[p]
                   f == CHOOSE a \in DOMAIN Drops(p) : ~Drops(p)[a].ok
               IN  /\ f = Len(Drops(p))
                   /\ Log(p)[Len(Log(p))] = Drops(p)[f]
                   /\ \A a \in DOMAIN Drops(p) : Drops(p)[a].db = r.rows[a]
                   /\ \A j \in (f + 1)..Len(r.rows) : r.rows[j] \in DOMAIN dbs
                   /\ r.exc = "DropError"

\* A sweep whose second DROP failed while a third row was still to come.
C7_Witness ==
    LET r == proc["c1"] IN
    /\ Returned("c1") /\ r.exc = "DropError"
    /\ Len(Drops("c1")) = 2 /\ Drops("c1")[1].ok /\ ~Drops("c1")[2].ok
    /\ Len(r.rows) = 3

\* C8 (partial-failure containment): when applying a migration file has
\* failed, no script is applied and the diff engine is not invoked after it,
\* nothing is written to primary output, and both ephemeral databases are
\* torn down.
C8_PartialFailureContainment ==
    \A p \in Diffs :
        Returned(p) => \A j \in DOMAIN Log(p) :
            (Log(p)[j].op = "EXECUTE" /\ Log(p)[j].arg \in FileNames /\ ~Log(p)[j].ok)
                => /\ \A m \in DOMAIN Log(p) :
                        m > j => Log(p)[m].op \notin {"EXECUTE", "DIFF"}
                   /\ proc[p].stdout = <<>>
                   /\ Cardinality(Opened(p)) = 2
                   /\ \A name \in Opened(p) : TornDown(p, name)

\* C9 (no masking): when a script or the diff engine has failed in the body,
\* the run ends with that error, also when the teardown fails after it.
C9_NoMasking ==
    \A p \in Diffs :
        Returned(p) => \A j \in DOMAIN Log(p) :
            /\ (Log(p)[j].op = "EXECUTE" /\ ~Log(p)[j].ok)
                  => proc[p].exc = "ApplyError"
            /\ (Log(p)[j].op = "DIFF" /\ ~Log(p)[j].ok)
                  => proc[p].exc = "DiffError"

\* C10 (reverse-order unwinding): when cmd_diff has returned from a run that
\* acquired both databases, successful or failed, every teardown statement
\* for the migrations database came before every teardown statement for the
\* schema database, and the admin connection is closed.
C10_ReverseUnwinding ==
    \A p \in Diffs :
        (Returned(p) /\ Cardinality(Opened(p)) = 2)
            => /\ \A a, b \in DOMAIN Log(p) :
                    (/\ Log(p)[a].op \in {"TERMINATE", "DROP"}
                     /\ Log(p)[b].op \in {"TERMINATE", "DROP"}
                     /\ EndsWith(Log(p)[a].db, MigrationsSuffix)
                     /\ EndsWith(Log(p)[b].db, SchemaSuffix)) => a < b
               /\ ~proc[p].conn

\* C11 (verbosity affects only the diagnostic stream): a run with verbose on
\* never ends with an error that the same run with verbose off cannot have
\* (the TypeError of a notice), writes nothing but the diff result to primary
\* output, and a cmd_diff run that has connected has written its first
\* progress notice to the diagnostic stream.
C11_VerboseOnlyDiagnostics ==
    \A p \in Procs :
        proc[p].verbose
            => /\ proc[p].exc # "TypeError"
               /\ \A j \in DOMAIN proc[p].stdout : proc[p].stdout[j] = "migration.sql"
               /\ (p \in Diffs /\ proc[p].conn) => proc[p].stderr # <<>>

\* The EXECUTE statements of p for files of the migration directory, in the
\* order p issued them.
IsFileExecute(stmt) == stmt.op = "EXECUTE" /\ stmt.arg \in FileNames
Applied(p) == SelectSeq(Log(p), IsFileExecute)

\* The loop over the directory listing of p is over.
LoopDone(p) ==
    proc[p].pc = "diff" \/ \E j \in DOMAIN Log(p) : Log(p)[j].op = "DIFF"

\* The files of the directory that hold a script and whose name ends in .sql.
SqlScripts ==
    {f \in DOMAIN migrationsDir :
        EndsWith(f, SqlExt) /\ Strip(migrationsDir[f]) # <<>>}

\* C12 (migration ordering): the files cmd_diff applies are files of the
\* directory whose name ends in .sql, each at most once and in ascending
\* lexicographic order of file name; when the loop is over, every such file
\* that holds a script has been applied.
C12_MigrationOrdering ==
    \A p \in Diffs :
        /\ \A a \in DOMAIN Applied(p) :
              /\ Applied(p)[a].arg \in DOMAIN migrationsDir
              /\ EndsWith(Applied(p)[a].arg, SqlExt)
        /\ \A a, b \in DOMAIN Applied(p) :
              a < b => StrLess(Applied(p)[a].arg, Applied(p)[b].arg)
        /\ LoopDone(p) => {Applied(p)[a].arg : a \in DOMAIN Applied(p)} = SqlScripts

\* The loop is over a directory of three files: 10-a.sql was applied, then
\* 2-b.sql, and the text file was not.
C12_Witness ==
    /\ LoopDone("d1")
    /\ FileTxt \in DOMAIN migrationsDir
    /\ Len(Applied("d1")) = 2
    /\ Applied("d1")[1].arg = File10a /\ Applied("d1")[1].ok
    /\ Applied("d1")[2].arg = File2b /\ Applied("d1")[2].ok

\* The positions in the log of p at which the diff engine was invoked.
DiffCalls(p) == {j \in DOMAIN Log(p) : Log(p)[j].op = "DIFF"}

\* C13 (diff invocation): the diff engine is invoked at most once per run;
\* when it is invoked, every script submitted before it succeeded, none is
\* submitted after it, the schema file and every migration file that hold a
\* script were applied, its source is the migrations database and its target
\* the schema database of this run, and when it succeeded destructive
\* statements were permitted; primary output holds the result once when the
\* engine succeeded and nothing otherwise.
C13_DiffInvocation ==
    \A p \in Diffs :
        /\ Cardinality(DiffCalls(p)) <= 1
        /\ \A j \in DiffCalls(p) :
              /\ \A k \in DOMAIN Log(p) :
                    Log(p)[k].op = "EXECUTE" => (k < j /\ Log(p)[k].ok)
              /\ Strip(schemaFile) # <<>>
                    => \E k \in 1..(j - 1) :
                          /\ Log(p)[k].op = "EXECUTE"
                          /\ Log(p)[k].arg = <<"schema">>
                          /\ Log(p)[k].db = Log(p)[j].arg
              /\ {Applied(p)[a].arg : a \in DOMAIN Applied(p)} = SqlScripts
              /\ \A a \in DOMAIN Applied(p) : Applied(p)[a].db = Log(p)[j].db
              /\ Log(p)[j].db \in Opened(p)
              /\ EndsWith(Log(p)[j].db, MigrationsSuffix)
              /\ Log(p)[j].arg \in Opened(p)
              /\ EndsWith(Log(p)[j].arg, SchemaSuffix)
              /\ Log(p)[j].ok => ~proc[p].safety
        /\ proc[p].stdout =
              IF \E j \in DiffCalls(p) : Log(p)[j].ok
              THEN <<"migration.sql">> ELSE <<>>

\* The diff engine succeeded after the schema file and two migration files
\* were applied, and its result is on primary output.
C13_Witness ==
    /\ \E j \in DiffCalls("d1") : Log("d1")[j].ok
    /\ \E k \in DOMAIN Log("d1") : Log("d1")[k].arg = <<"schema">>
    /\ Len(Applied("d1")) = 2
    /\ proc["d1"].stdout = <<"migration.sql">>
    /\ Returned("d1")

\* A file content without any character but whitespace (none at all too).
IsBlank(sql) == \A j \in DOMAIN sql : sql[j] \in Whitespace

\* The content of the file an EXECUTE statement of the log was read from.
ContentOf(stmt) ==
    IF stmt.arg = <<"schema">> THEN schemaFile ELSE migrationsDir[stmt.arg]

IsExecute(stmt) == stmt.op = "EXECUTE"

\* How many of the files cmd_diff reads hold a script.
ScriptCount ==
    Cardinality({f \in DOMAIN migrationsDir :
                    EndsWith(f, SqlExt) /\ ~IsBlank(migrationsDir[f])})
        + (IF IsBlank(schemaFile) THEN 0 ELSE 1)

\* C14 (no-op property): a schema or migration file that is empty or holds
\* only whitespace is never submitted to the script executor and causes no
\* error: the run ends with a script error only when a submitted script
\* failed, and it goes on past blank files, so that when the loop is over
\* exactly the files that hold a script have been submitted.
C14_BlankFilesSkipped ==
    \A p \in Diffs :
        /\ \A j \in DOMAIN Log(p) :
              IsExecute(Log(p)[j]) => ~IsBlank(ContentOf(Log(p)[j]))
        /\ proc[p].exc = "ApplyError"
              => \E j \in DOMAIN Log(p) : IsExecute(Log(p)[j]) /\ ~Log(p)[j].ok
        /\ LoopDone(p) => Len(SelectSeq(Log(p), IsExecute)) = ScriptCount

\* A run over a whitespace-only schema file and an empty 10-a.sql went on to
\* apply 2-b.sql and to diff, and ended without error.
C14_Witness ==
    /\ schemaFile = Blank
    /\ File10a \in DOMAIN migrationsDir /\ migrationsDir[File10a] = Empty
    /\ Len(Applied("d1")) = 1 /\ Applied("d1")[1].arg = File2b
    /\ \E j \in DiffCalls("d1") : Log("d1")[j].ok
    /\ Returned("d1") /\ proc["d1"].exc = NoExc

\* The positions in the log of p of the CREATE DATABASE statements for a
\* name with the given suffix.
Creates(p, suffix) ==
    {j \in DOMAIN Log(p) : Log(p)[j].op = "CREATE" /\ EndsWith(Log(p)[j].db, suffix)}

\* C15 as stated (pipeline step order): when CREATE DATABASE for the
\* migrations database is issued, the schema database has been created and
\* the schema file, if it holds a script, has been applied to it.
C15_SchemaAppliedFirst ==
    \A p \in Diffs : \A b \in Creates(p, MigrationsSuffix) :
        /\ \E a \in Creates(p, SchemaSuffix) : a < b /\ Log(p)[a].ok
        /\ ~IsBlank(schemaFile)
              => \E k \in 1..(b - 1) :
                    /\ IsExecute(Log(p)[k]) /\ Log(p)[k].ok
                    /\ Log(p)[k].arg = <<"schema">>

\* C15 as amended: the schema database is created and tagged, then the
\* migrations database is created, and no script is submitted before both
\* are there; the schema file is then applied to the schema database before
\* any migration file is applied to the migrations database. When CREATE
\* DATABASE for the migrations database is issued the schema database has its
\* marker and nothing has been applied to it.
C15_CreateBothThenApply ==
    \A p \in Diffs :
        /\ \A b \in Creates(p, MigrationsSuffix) :
              /\ \E a \in 1..(b - 1) :
                    /\ Log(p)[a].op = "COMMENT" /\ Log(p)[a].ok
                    /\ EndsWith(Log(p)[a].db, SchemaSuffix)
              /\ \A k \in 1..b : ~IsExecute(Log(p)[k])
        /\ \A k \in DOMAIN Log(p) :
              IsExecute(Log(p)[k])
                  => /\ \E a \in Creates(p, SchemaSuffix) :
                        \E b \in Creates(p, MigrationsSuffix) :
                            a < b /\ b < k /\ Log(p)[a].ok /\ Log(p)[b].ok
                     /\ EndsWith(Log(p)[k].db,
                                 IF Log(p)[k].arg = <<"schema">>
                                 THEN SchemaSuffix ELSE MigrationsSuffix)
        /\ \A j, k \in DOMAIN Log(p) :
              (/\ IsExecute(Log(p)[j]) /\ Log(p)[j].arg = <<"schema">>
               /\ IsFileExecute(Log(p)[k])) => j < k

\* Both databases were created, then the schema file was applied, then a
\* migration file.
C15_Witness ==
    /\ Creates("d1", MigrationsSuffix) # {}
    /\ \E j \in DOMAIN Log("d1") :
          /\ IsExecute(Log("d1")[j]) /\ Log("d1")[j].arg = <<"schema">>
          /\ Log("d1")[j].ok
          /\ \A b \in Creates("d1", MigrationsSuffix) : b < j
    /\ Len(Applied("d1")) >= 1

\* The positions in the log of p of a CREATE DATABASE statement that failed
\* on a well-formed name while another invocation runs with the same prefix:
\* the name is taken.
Collisions(p) ==
    {j \in DOMAIN Log(p) :
        /\ Log(p)[j].op = "CREATE" /\ ~Log(p)[j].ok
        /\ Log(p)[j].db # SyntaxError
        /\ \E q \in Diffs \ {p} : proc[q].dbname = proc[p].dbname}

\* C16 (name collision): the invocation whose CREATE DATABASE failed on a
\* taken name issues no further CREATE and neither a terminate statement nor
\* a DROP for that name, and does not drop the database of that name; when
\* it has returned it has ended with the creation error and every database
\* whose scope it had opened before is torn down and gone.
C16_NameCollision ==
    \A p \in Diffs : \A j \in Collisions(p) :
        LET name == Log(p)[j].db IN
        /\ \A k \in DOMAIN Log(p) :
              /\ k > j => Log(p)[k].op # "CREATE"
              /\ Log(p)[k].op \in {"TERMINATE", "DROP"} => Log(p)[k].db # name
        /\ \A g \in gone : g.by = p => g.name # name
        /\ Returned(p)
              => /\ proc[p].exc = "ProvisioningError"
                 /\ \A own \in Opened(p) :
                       /\ TornDown(p, own)
                       /\ ~(own \in DOMAIN dbs /\ dbs[own].creator = p)

\* C17 (CREATE and DROP name the same database): whatever the configured
\* prefix, every DROP DATABASE statement of a teardown targets the database
\* that the terminate statement before it names and that this run created
\* with CREATE DATABASE, and no CREATE or DROP statement is issued with a
\* name that holds a quote character.
C17_CreateDropSameDatabase ==
    \A p \in Diffs : \A j \in DOMAIN Log(p) :
        /\ Log(p)[j].op = "DROP"
              => /\ j > 1 /\ Log(p)[j - 1].op = "TERMINATE"
                 /\ Log(p)[j].db = Log(p)[j - 1].db
                 /\ \E a \in 1..(j - 1) :
                       /\ Log(p)[a].op = "CREATE" /\ Log(p)[a].ok
                       /\ Log(p)[a].db = Log(p)[j].db
        /\ Log(p)[j].op \in {"CREATE", "DROP"} => ~HasQuote(proc[p].dbname)

\* The positions in the log of p of the teardown statements that failed on
\* the migrations database.
MigrationsTeardownFailures(p) ==
    {j \in DOMAIN Log(p) :
        /\ Log(p)[j].op \in {"TERMINATE", "DROP"} /\ ~Log(p)[j].ok
        /\ EndsWith(Log(p)[j].db, MigrationsSuffix)}

C19_TeardownFrame ==
    [][\A p \in Diffs :
          (proc[p].pc \in {"terminate", "drop"} /\ proc'[p] # proc[p])
              => \A m \in DOMAIN dbs :
                    m # Top(proc[p]) => (m \in DOMAIN dbs' /\ dbs'[m] = dbs[m])]_vars

====
